---- MODULE Spec2Model ----
\* Model of the Minesweeper knowledge-based agent (minesweeper.py):
\* the board (class Minesweeper), constraints (class Sentence) and the
\* inference engine (class MinesweeperAI).
EXTENDS Integers, Sequences, FiniteSets, TLC

\* ---------------------------------------------------------------- bounds
\* Board dimensions (constructor arguments height, width) and the number of
\* mines placed on the board, scaled down from the defaults 8, 8, 8.
Height == 2
Width == 3
MaxMines == 3
\* The number of distinct cells probed in one game.
MaxMoves == 3

\* A value for "no call in progress" (the frame of add_knowledge is gone)
\* and for the None a move selector returns.
NoCell == <<-1, -1>>

\* No move selector has returned since the last add_knowledge call.
NoReturn == [op |-> "none", move |-> NoCell]

VARIABLES
    height,      \* MinesweeperAI.height (and Minesweeper.height)
    width,       \* MinesweeperAI.width (and Minesweeper.width)
    board,       \* Minesweeper.mines: the set of cells that hold a mine
    moves_made,  \* MinesweeperAI.moves_made
    mines,       \* MinesweeperAI.mines
    safes,       \* MinesweeperAI.safes
    knowledge,   \* MinesweeperAI.knowledge: a list of sentences
    pc,          \* position inside add_knowledge, "idle" between calls
    cell,        \* argument cell of the running add_knowledge call
    count,       \* argument count of the running add_knowledge call
    raised,      \* TRUE when the last add_knowledge call ended by RuntimeError
    ret          \* what the last make_safe_move / make_random_move returned

vars ==
    <<height, width, board, moves_made, mines, safes, knowledge, pc, cell,
      count, raised, ret>>

\* All cells of the board, as make_random_move enumerates them.
Cells == (0 .. height - 1) \X (0 .. width - 1)

\* ------------------------------------------------------------ the board
is_mine(b, c) == c \in b

\* The cells (i + di, j + dj) for di, dj in range(-1, 2), the cell itself
\* left out, without the bounds test.
Adjacent_unclipped(c) ==
    {<<c[1] + di, c[2] + dj>> : di \in -1 .. 1, dj \in -1 .. 1} \ {c}

\* An Adjacent without the bounds test.
Adjacent_off_board(c) == Adjacent_unclipped(c)

\* The same cells kept only when 0 <= i < height and 0 <= j < width.
Adjacent(c) ==
    {n \in Adjacent_unclipped(c) :
        0 <= n[1] /\ n[1] < height /\ 0 <= n[2] /\ n[2] < width}

nearby_mines(b, c) == Cardinality({n \in Adjacent(c) : is_mine(b, n)})

\* ------------------------------------------------------------- Sentence
Sentence(cs, n) == [cells |-> cs, count |-> n]

Sentence_known_mines(s) ==
    IF s.count = Cardinality(s.cells) THEN s.cells ELSE {}

Sentence_known_safes(s) ==
    IF s.count = 0 THEN s.cells ELSE {}

\* A Sentence.mark_mine that removes the cell and keeps the count.
Sentence_mark_mine_keep_count(s, c) ==
    IF c \in s.cells THEN Sentence(s.cells \ {c}, s.count) ELSE s

Sentence_mark_mine(s, c) ==
    IF c \in s.cells THEN Sentence(s.cells \ {c}, s.count - 1) ELSE s

Sentence_mark_safe(s, c) ==
    IF c \in s.cells THEN Sentence(s.cells \ {c}, s.count) ELSE s

\* -------------------------------------------------------- MinesweeperAI
Range(seq) == {seq[i] : i \in DOMAIN seq}

\* The knowledge-base part of the object, as one value.
KB(mm, sf, mn, kn) ==
    [moves_made |-> mm, safes |-> sf, mines |-> mn, knowledge |-> kn]

\* A mark_mine that records the mine and leaves the sentences alone.
mark_mine_unpropagated(k, c) == [k EXCEPT !.mines = @ \cup {c}]

mark_mine(k, c) ==
    [k EXCEPT !.mines = @ \cup {c},
              !.knowledge = [i \in DOMAIN @ |-> Sentence_mark_mine(@[i], c)]]

\* A mark_safe that overwrites safes with the one cell.
mark_safe_overwrite(k, c) ==
    [k EXCEPT !.safes = {c},
              !.knowledge = [i \in DOMAIN @ |-> Sentence_mark_safe(@[i], c)]]

mark_safe(k, c) ==
    [k EXCEPT !.safes = @ \cup {c},
              !.knowledge = [i \in DOMAIN @ |-> Sentence_mark_safe(@[i], c)]]

\* add_knowledge step 1: record the move and mark the cell safe.
RecordMove(k, c) ==
    mark_safe([k EXCEPT !.moves_made = @ \cup {c}], c)

\* add_knowledge step 2: the in-bounds neighbours not known safe or mine.
neighbors(k, c) == {n \in Adjacent(c) : n \notin k.safes /\ n \notin k.mines}

\* add_knowledge step 3: the new sentence carries the count as reported.
new_sentence(k, c, n) == Sentence(neighbors(k, c), n)

AddSentence(k, c, n) ==
    IF new_sentence(k, c, n) \in Range(k.knowledge)
    THEN k
    ELSE [k EXCEPT !.knowledge = Append(@, new_sentence(k, c, n))]

\* update_knowledge: the sentences whose known_mines() / known_safes() is a
\* non-empty set.  The for loop over that set iterates the sentence's own
\* cell set, which mark_mine / mark_safe shrinks: the loop marks the first
\* cell the iterator yields and then raises RuntimeError.
Resolvable(s) ==
    Sentence_known_mines(s) # {} \/ Sentence_known_safes(s) # {}

FirstResolvable(kn) ==
    IF \E i \in DOMAIN kn : Resolvable(kn[i])
    THEN CHOOSE i \in DOMAIN kn :
            Resolvable(kn[i]) /\ \A j \in 1 .. i - 1 : ~Resolvable(kn[j])
    ELSE 0

\* The states update_knowledge can leave behind when it raises: one per cell
\* the set iterator may yield first.
UpdateRaises(k) ==
    LET i == FirstResolvable(k.knowledge)
        s == k.knowledge[i]
    IN  IF i = 0 THEN {}
        ELSE IF Sentence_known_mines(s) # {}
             THEN {mark_mine(k, c) : c \in Sentence_known_mines(s)}
             ELSE {mark_safe(k, c) : c \in Sentence_known_safes(s)}

\* update_knowledge when nothing is resolvable: only the final filter acts.
RemoveEmpty(k) ==
    [k EXCEPT !.knowledge = SelectSeq(@, LAMBDA s : s.cells # {})]

\* infer_new_sentences: the inner loop over a copy of the list taken when
\* the outer iteration starts, appending to the live list.
RECURSIVE InferInner(_, _, _, _)
InferInner(s1, snap, j, kn) ==
    IF j > Len(snap) THEN kn
    ELSE LET s2 == snap[j]
             inferred == Sentence(s2.cells \ s1.cells, s2.count - s1.count)
         IN  InferInner(s1, snap, j + 1,
                 IF s1 # s2 /\ s1.cells \subseteq s2.cells
                    /\ inferred \notin Range(kn)
                 THEN Append(kn, inferred)
                 ELSE kn)

RECURSIVE InferOuter(_, _, _)
InferOuter(snap, i, kn) ==
    IF i > Len(snap) THEN kn
    ELSE InferOuter(snap, i + 1, InferInner(snap[i], kn, 1, kn))

infer_new_sentences(k) ==
    [k EXCEPT !.knowledge = InferOuter(@, 1, @)]

\* -------------------------------------------------------------- actions
Now == KB(moves_made, safes, mines, knowledge)

Install(k) ==
    /\ moves_made' = k.moves_made
    /\ safes' = k.safes
    /\ mines' = k.mines
    /\ knowledge' = k.knowledge

Init ==
    /\ height = Height
    /\ width = Width
    /\ board \in {b \in SUBSET Cells : Cardinality(b) <= MaxMines}
    /\ moves_made = {}
    /\ mines = {}
    /\ safes = {}
    /\ knowledge = <<>>
    /\ pc = "idle"
    /\ cell = NoCell
    /\ count = 0
    /\ raised = FALSE
    /\ ret = NoReturn

\* A truthful call add_knowledge(c, nearby_mines(c)) on a cell without a
\* mine; lines 165-167.
Begin(c) ==
    /\ pc = "idle"
    /\ ~is_mine(board, c)
    /\ c \in moves_made \/ Cardinality(moves_made) < MaxMoves
    /\ cell' = c
    /\ count' = nearby_mines(board, c)
    /\ Install(RecordMove(Now, c))
    /\ raised' = FALSE
    /\ pc' = "sentence"
    /\ ret' = NoReturn
    /\ UNCHANGED <<height, width, board>>

\* Lines 169-183.
FormSentence ==
    /\ pc = "sentence"
    /\ Install(AddSentence(Now, cell, count))
    /\ pc' = "update"
    /\ UNCHANGED <<height, width, board, cell, count, raised, ret>>

\* Lines 195-201 when a sentence resolves: one cell is marked, then the
\* RuntimeError leaves add_knowledge.  The object keeps the state reached so
\* far (the new sentence, the one mark) and accepts further calls.
UpdateRaise ==
    /\ pc = "update"
    /\ \E k \in UpdateRaises(Now) : Install(k)
    /\ raised' = TRUE
    /\ pc' = "idle"
    /\ cell' = NoCell
    /\ count' = 0
    /\ UNCHANGED <<height, width, board, ret>>

\* Lines 195-204 when no sentence resolves.
UpdateDone ==
    /\ pc = "update"
    /\ UpdateRaises(Now) = {}
    /\ Install(RemoveEmpty(Now))
    /\ pc' = "infer"
    /\ UNCHANGED <<height, width, board, cell, count, raised, ret>>

\* An Infer that goes back to the resolution pass instead of returning.
Infer_restart ==
    /\ pc = "infer"
    /\ Install(infer_new_sentences(Now))
    /\ pc' = "update"
    /\ UNCHANGED <<height, width, board, cell, count, raised, ret>>

\* Lines 206-218, then add_knowledge returns.
Infer ==
    /\ pc = "infer"
    /\ Install(infer_new_sentences(Now))
    /\ pc' = "idle"
    /\ cell' = NoCell
    /\ count' = 0
    /\ UNCHANGED <<height, width, board, raised, ret>>

Next ==
    \/ \E c \in Cells : Begin(c)
    \/ FormSentence
    \/ UpdateRaise
    \/ UpdateDone
    \/ Infer

Spec == Init /\ [][Next]_vars

TypeOK ==
    /\ board \subseteq Cells
    /\ moves_made \subseteq Cells
    /\ pc \in {"idle", "sentence", "update", "infer"}
    /\ raised \in BOOLEAN

\* A make_safe_move that forgets the test against moves_made.
make_safe_move_any(k) == IF k.safes = {} THEN {NoCell} ELSE k.safes

\* make_safe_move: the loop over safes, in any order the set may iterate,
\* returns the first cell not in moves_made, None (NoCell) at the end.
RECURSIVE SafeMoveLoop(_, _)
SafeMoveLoop(k, rest) ==
    IF rest = {} THEN {NoCell}
    ELSE UNION {IF c \notin k.moves_made THEN {c}
                ELSE SafeMoveLoop(k, rest \ {c}) : c \in rest}

make_safe_move(k) == SafeMoveLoop(k, k.safes)

\* A make_random_move that forgets to leave out the known mines.
make_random_move_any(k) ==
    IF Cells \ k.moves_made # {} THEN Cells \ k.moves_made ELSE {NoCell}

\* make_random_move: random.choice among all cells - moves_made - mines.
make_random_move(k) ==
    LET possible_moves == (Cells \ k.moves_made) \ k.mines
    IN  IF possible_moves # {} THEN possible_moves ELSE {NoCell}

\* The selectors are called between add_knowledge calls and only return.
MakeSafeMove ==
    /\ pc = "idle"
    /\ \E m \in make_safe_move(Now) : ret' = [op |-> "safe", move |-> m]
    /\ UNCHANGED <<height, width, board, moves_made, mines, safes, knowledge,
                   pc, cell, count, raised>>

MakeRandomMove ==
    /\ pc = "idle"
    /\ \E m \in make_random_move(Now) : ret' = [op |-> "random", move |-> m]
    /\ UNCHANGED <<height, width, board, moves_made, mines, safes, knowledge,
                   pc, cell, count, raised>>

NextMoves == Next \/ MakeSafeMove \/ MakeRandomMove

SpecMoves == Init /\ [][NextMoves]_vars

\* add_knowledge as a whole: the knowledge bases one call can leave behind.
add_knowledge(k, c, n) ==
    LET k3 == AddSentence(RecordMove(k, c), c, n)
    IN  IF UpdateRaises(k3) # {}
        THEN UpdateRaises(k3)
        ELSE {infer_new_sentences(RemoveEmpty(k3))}

\* ------------------------------------------------------------ properties
\* A sentence is true of the board when it counts the mines among its cells.
TrueOf(s) == Cardinality(s.cells \cap board) = s.count

\* add_knowledge has been called and has returned normally.
Returned == pc = "idle" /\ ~raised /\ moves_made # {}

\* C1: under truthful calls every cell of mines is a mine of the board, no
\* cell of safes is one, and make_safe_move never returns a mine.
C1_claim ==
    /\ mines \subseteq board
    /\ safes \cap board = {}
    /\ \A c \in make_safe_move(Now) : ~is_mine(board, c)

\* C2: after each truthful call every sentence of knowledge is true of the
\* board.
C2_claim == pc = "idle" => \A s \in Range(knowledge) : TrueOf(s)

\* C3: the sentence formed by add_knowledge leaves out the neighbours known
\* to be mines or safe, and its count is the reported count minus the number
\* of neighbours already known to be mines.
C3_claim ==
    [][pc = "sentence" =>
          Sentence(Adjacent(cell) \ (safes \cup mines),
                   count - Cardinality(Adjacent(cell) \cap mines))
              \in Range(knowledge')]_vars

\* C4: every sentence of knowledge has 0 <= count <= |cells|.
C4_claim ==
    \A s \in Range(knowledge) : 0 <= s.count /\ s.count <= Cardinality(s.cells)

\* C5: no truthful add_knowledge call ends by an exception.
C5_claim == ~raised

\* C6: when add_knowledge returns no sentence with cells has count 0 or
\* count = |cells|.
C6_claim ==
    Returned => \A s \in Range(knowledge) : s.cells # {} => ~Resolvable(s)

\* C7: when add_knowledge returns, knowledge is closed under subset
\* inference: for distinct sentences a, b with a.cells a subset of b.cells
\* the derived sentence, if it has cells and a count >= 0, is in knowledge
\* (or its cells are all known), so that one more pass changes nothing.
Derived(a, b) == Sentence(b.cells \ a.cells, b.count - a.count)

SubsetClosed(kn) ==
    \A a, b \in Range(kn) :
        (a # b /\ a.cells \subseteq b.cells
           /\ Derived(a, b).cells # {} /\ Derived(a, b).count >= 0)
        => \/ Derived(a, b) \in Range(kn)
           \/ Derived(a, b).cells \subseteq safes \cup mines

C7_claim == Returned => SubsetClosed(knowledge)

\* C8: calling add_knowledge again with a cell already processed and its
\* count changes none of moves_made, safes, mines, knowledge.
C8_claim ==
    Returned =>
        \A c \in moves_made :
            add_knowledge(Now, c, nearby_mines(board, c)) = {Now}

\* C9: safes and mines are disjoint.
C9_claim == safes \cap mines = {}

\* C10: a base-level mark_mine(c) / mark_safe(c) puts c in mines / safes and
\* removes it from every sentence of knowledge, a sentence that held c losing
\* 1 from its count for a mine and nothing for a safe cell; and when
\* add_knowledge has returned no sentence holds a cell of safes or mines.
MarkedMine(c) == pc = "update" /\ pc' = "idle" /\ c \in mines' \ mines

MarkedSafe(c) ==
    \/ pc = "idle" /\ pc' = "sentence" /\ c = cell'
    \/ pc = "update" /\ pc' = "idle" /\ c \in safes' \ safes

AfterMark(c, dec) ==
    /\ Len(knowledge') = Len(knowledge)
    /\ \A i \in DOMAIN knowledge :
          /\ c \notin knowledge'[i].cells
          /\ c \in knowledge[i].cells =>
                knowledge'[i] = Sentence(knowledge[i].cells \ {c},
                                         knowledge[i].count - dec)

KnownAbsent ==
    \A s \in Range(knowledge) : s.cells \cap (safes \cup mines) = {}

C10_theorem ==
    [][/\ \A c \in Cells :
             /\ MarkedMine(c) => c \in mines' /\ AfterMark(c, 1)
             /\ MarkedSafe(c) => c \in safes' /\ AfterMark(c, 0)
       /\ Returned' => KnownAbsent']_vars

\* add_knowledge has returned after mark_mine has acted (a mine is known;
\* mark_safe acts in every call) and sentences with cells remain.
C10_witness ==
    /\ Returned
    /\ mines # {}
    /\ \E s \in Range(knowledge) : s.cells # {}

\* C11: on the 3x3 board with one mine at (0,0), from an empty knowledge
\* base: after add_knowledge((1,1), 1) knowledge holds the sentence over the
\* 8 neighbours of (1,1) with count 1; after add_knowledge((2,2), 0) next,
\* the neighbours of (2,2) are all in safes, the first sentence is
\* {(0,0),(0,1),(1,0)} = 1, (0,0) is not in mines and make_safe_move returns
\* None or a cell without a mine.
Init11 ==
    /\ height = 3
    /\ width = 3
    /\ board = {<<0, 0>>}
    /\ moves_made = {}
    /\ mines = {}
    /\ safes = {}
    /\ knowledge = <<>>
    /\ pc = "idle"
    /\ cell = NoCell
    /\ count = 0
    /\ raised = FALSE
    /\ ret = NoReturn

Spec11 == Init11 /\ [][Next]_vars

\* Only (1,1) has been probed.
AfterFirst == pc = "idle" /\ moves_made = {<<1, 1>>}

\* The call on (2,2) runs and nothing but the two probed cells was known
\* when it started: it follows calls on (1,1) only.
InSecond ==
    /\ pc = "update"
    /\ cell = <<2, 2>>
    /\ moves_made = {<<1, 1>>, <<2, 2>>}
    /\ safes = moves_made
    /\ mines = {}

AfterSecond ==
    /\ ~raised
    /\ {<<1, 2>>, <<2, 1>>} \subseteq safes
    /\ Len(knowledge) >= 1
    /\ knowledge[1] = Sentence({<<0, 0>>, <<0, 1>>, <<1, 0>>}, 1)
    /\ <<0, 0>> \notin mines
    /\ \A m \in make_safe_move(Now) : m = NoCell \/ ~is_mine(board, m)

C11_claim ==
    [][/\ AfterFirst' =>
            knowledge' = <<Sentence({<<0, 0>>, <<0, 1>>, <<0, 2>>, <<1, 0>>,
                                     <<1, 2>>, <<2, 0>>, <<2, 1>>, <<2, 2>>}, 1)>>
       /\ InSecond /\ pc' = "idle" => AfterSecond']_vars

\* C12: when add_knowledge has returned, no sentence of knowledge has an
\* empty cell set.
C12_claim == Returned => \A s \in Range(knowledge) : s.cells # {}

\* C13: infer_new_sentences never stores a derived sentence with a negative
\* count, whatever the counts it starts from.
C13_claim ==
    [][pc = "infer" =>
          \A i \in DOMAIN knowledge' :
              knowledge'[i].count < 0 =>
                  i \in DOMAIN knowledge /\ knowledge[i] = knowledge'[i]]_vars

\* C14: make_safe_move returns a cell of safes that is not in moves_made
\* whenever there is one, None exactly when there is none, and changes none
\* of moves_made, safes, mines, knowledge.
C14_theorem ==
    [][ret'.op = "safe" =>
          /\ safes \ moves_made # {} =>
                ret'.move \in safes /\ ret'.move \notin moves_made
          /\ ret'.move = NoCell <=> safes \ moves_made = {}
          /\ UNCHANGED <<moves_made, safes, mines, knowledge>>]_vars

\* make_safe_move has returned a cell while probed cells exist.
C14_witness == ret.op = "safe" /\ ret.move # NoCell /\ moves_made # {}

\* C15: every result of make_random_move is a cell of the board that is in
\* neither moves_made nor mines, None exactly when no such cell is left, and
\* the call changes none of moves_made, safes, mines, knowledge.
InBounds(c) == 0 <= c[1] /\ c[1] < height /\ 0 <= c[2] /\ c[2] < width

C15_theorem ==
    [][ret'.op = "random" =>
          /\ ret'.move # NoCell =>
                /\ InBounds(ret'.move)
                /\ ret'.move \notin moves_made
                /\ ret'.move \notin mines
          /\ ret'.move = NoCell <=>
                \A i \in 0 .. height - 1, j \in 0 .. width - 1 :
                    <<i, j>> \in moves_made \cup mines
          /\ UNCHANGED <<moves_made, safes, mines, knowledge>>]_vars

\* make_random_move has returned a cell while a mine is known and unprobed
\* cells besides the known mines remain.
C15_witness == ret.op = "random" /\ ret.move # NoCell /\ mines # {}

\* C16: Sentence.mark_mine(cell) on a sentence holding the cell removes it
\* and takes exactly 1 from count, Sentence.mark_safe(cell) removes it and
\* keeps count, both do nothing when the cell is not a member, and a second
\* call with the same cell changes nothing.
\* One Sentence object alone: knowledge holds it, pc and cell record the
\* last method called on it and its argument.
InitSentence ==
    /\ height = Height
    /\ width = Width
    /\ board = {}
    /\ moves_made = {}
    /\ mines = {}
    /\ safes = {}
    /\ knowledge \in {<<Sentence(cs, n)>> :
                        cs \in UNION {SUBSET Adjacent(c) : c \in Cells},
                        n \in 0 .. 8} 
    /\ knowledge[1].count <= Cardinality(knowledge[1].cells)
    /\ pc = "new"
    /\ cell = NoCell
    /\ count = 0
    /\ raised = FALSE
    /\ ret = NoReturn

SentenceMarkMine(c) ==
    /\ pc \in {"new", "mark_mine", "mark_safe"}
    /\ knowledge' = <<Sentence_mark_mine(knowledge[1], c)>>
    /\ pc' = "mark_mine"
    /\ cell' = c
    /\ UNCHANGED <<height, width, board, moves_made, mines, safes, count,
                   raised, ret>>

SentenceMarkSafe(c) ==
    /\ pc \in {"new", "mark_mine", "mark_safe"}
    /\ knowledge' = <<Sentence_mark_safe(knowledge[1], c)>>
    /\ pc' = "mark_safe"
    /\ cell' = c
    /\ UNCHANGED <<height, width, board, moves_made, mines, safes, count,
                   raised, ret>>

NextSentence == \E c \in Cells : SentenceMarkMine(c) \/ SentenceMarkSafe(c)

SpecSentence == InitSentence /\ [][NextSentence]_vars

C16_theorem ==
    [][LET s == knowledge[1]
           t == knowledge'[1]
           c == cell'
       IN  /\ pc' = "mark_mine" =>
                /\ c \in s.cells =>
                      t.cells = s.cells \ {c} /\ t.count = s.count - 1
                /\ c \notin s.cells => t = s
                /\ Sentence_mark_mine(t, c) = t
           /\ pc' = "mark_safe" =>
                /\ c \in s.cells =>
                      t.cells = s.cells \ {c} /\ t.count = s.count
                /\ c \notin s.cells => t = s
                /\ Sentence_mark_safe(t, c) = t]_vars

\* mark_mine has removed a member of a sentence whose count was 0 and that
\* still has cells: the count shows the decrement.
C16_witness ==
    /\ pc = "mark_mine"
    /\ knowledge[1].count = -1
    /\ knowledge[1].cells # {}
    /\ cell \notin knowledge[1].cells

\* C17: every add_knowledge call ends: once a call has started, the steps
\* of the call (sentence, resolution pass, inference pass) come to an end
\* and control leaves add_knowledge.
\* The code is sequential: a step that can be taken is taken.
SpecLive ==
    /\ Init
    /\ [][Next]_vars
    /\ WF_vars(FormSentence)
    /\ WF_vars(UpdateRaise)
    /\ WF_vars(UpdateDone)
    /\ WF_vars(Infer)

C17_theorem == (pc # "idle") ~> (pc = "idle")

\* A call has returned after an inference pass that derived sentences:
\* knowledge holds more sentences than cells were probed.
C17_witness == Returned /\ Len(knowledge) > Cardinality(moves_made)

\* C18: moves_made, safes and mines only gain cells: over every step of
\* every add_knowledge call, the marks inside it included, no cell leaves
\* any of the three sets.
C18_theorem ==
    [][/\ moves_made \subseteq moves_made'
       /\ safes \subseteq safes'
       /\ mines \subseteq mines']_vars

\* All three sets have grown, safes beyond the probed cells.
C18_witness ==
    /\ Cardinality(moves_made) >= 2
    /\ mines # {}
    /\ safes \ moves_made # {}

\* C19: when add_knowledge has returned, no two sentences of knowledge are
\* equal (same cells and same count).
C19_claim ==
    Returned =>
        \A i, j \in DOMAIN knowledge : i # j => knowledge[i] # knowledge[j]

\* C20: add_knowledge(cell, count) puts cell in moves_made and safes and
\* forms its sentence over exactly the cells of the board at Chebyshev
\* distance 1 from cell that are in neither safes nor mines at that moment;
\* every cell of a sentence, of safes and of mines is inside the board.
Abs(x) == IF x < 0 THEN -x ELSE x

Chebyshev(a, b) ==
    IF Abs(a[1] - b[1]) >= Abs(a[2] - b[2])
    THEN Abs(a[1] - b[1]) ELSE Abs(a[2] - b[2])

Expected(c) ==
    {n \in (0 .. height - 1) \X (0 .. width - 1) :
        Chebyshev(n, c) = 1 /\ n \notin safes /\ n \notin mines}

AllInBounds ==
    /\ \A c \in safes \cup mines \cup moves_made : InBounds(c)
    /\ \A s \in Range(knowledge) : \A c \in s.cells : InBounds(c)

C20_theorem ==
    [][/\ pc = "idle" /\ pc' = "sentence" =>
             cell' \in moves_made' /\ cell' \in safes'
       /\ pc = "sentence" =>
             \/ /\ knowledge' = knowledge
                /\ \E s \in Range(knowledge) : s.cells = Expected(cell)
             \/ /\ Len(knowledge') = Len(knowledge) + 1
                /\ SubSeq(knowledge', 1, Len(knowledge)) = knowledge
                /\ knowledge'[Len(knowledge')].cells = Expected(cell)
       /\ AllInBounds']_vars

\* The call on the corner (0,0) has just formed its sentence, with a known
\* mine and a known safe cell among the neighbours left out.
C20_witness ==
    /\ pc = "update"
    /\ cell = <<0, 0>>
    /\ Adjacent(cell) \cap mines # {}
    /\ Adjacent(cell) \cap safes # {}
    /\ knowledge # <<>>
    /\ knowledge[Len(knowledge)].cells = Adjacent(cell) \ (safes \cup mines)
    /\ knowledge[Len(knowledge)].cells # {}

====
